---- MODULE Spec2Model ----
(***************************************************************************)
(* Minimum edge cover of an undirected graph.                              *)
(*                                                                         *)
(* Two implementations live in the repository and both are modelled here:  *)
(*   - class MinEdgeCover (graph.hpp): validating constructor, greedy      *)
(*     seed + BFS "augmentation" in findMaxMatching, completion in solve;  *)
(*   - class Graph (main.cpp): addEdge, Kuhn-style dfs, findMaxMatching,   *)
(*     findMinEdgeCover.                                                   *)
(* Vertices are integers, "no vertex" is -1 as in the source, an edge is   *)
(* the pair <<u, v>> and a vector is a sequence (adjacency vectors are     *)
(* functions from 0..n-1 to sequences).                                    *)
(***************************************************************************)
EXTENDS Integers, Sequences, FiniteSets, TLC

\* ------------------------------------------------------------------ bounds
\* Largest vertex count and longest edge list given to MinEdgeCover when the
\* edge endpoints are in range.
MaxN == 4
MaxEdges == 3
\* The same for the constructor runs that also draw out-of-range endpoints
\* and non-positive vertex counts (down to -NegRange).
CtorMaxN == 3
CtorMaxEdges == 2
NegRange == 2
\* Largest vertex count and number of addEdge calls for class Graph.
KMaxV == 5
KMaxEdges == 4

VARIABLES
    \* ---- class MinEdgeCover (graph.hpp)
    pc,         \* position of the caller: new, failed, constructed, phase, bfs, done, ub
    vertices,   \* constructor argument `vertices`
    edgeList,   \* constructor argument `edgeList`
    err,        \* kind of the exception the constructor threw, "none" if none
    n,          \* member n
    edges,      \* member edges
    adj,        \* member adj
    match,      \* findMaxMatching: local match
    matching,   \* findMaxMatching: local matching
    improved,   \* findMaxMatching: local improved
    parent,     \* findMaxMatching: local parent (per phase)
    visited,    \* findMaxMatching: local visited (per phase)
    q,          \* findMaxMatching: local q (per phase)
    pathEnd,    \* findMaxMatching: local pathEnd (per phase)
    phases,     \* number of iterations of `while (improved)` started
    flips,      \* number of times the path-flipping block was entered
    result,     \* value returned by solve()
    \* ---- class Graph (main.cpp)
    kpc,        \* position of the caller: off, build, matching, done
    V,          \* member V
    kadj,       \* member adj
    kedges,     \* member edges
    kmatch,     \* findMaxMatching: local match
    kv,         \* findMaxMatching: loop variable v
    kiso,       \* findMinEdgeCover took the isolated-vertex return
    edgeCover   \* value returned by findMinEdgeCover()

mecVars == <<pc, vertices, edgeList, err, n, edges, adj, match, matching,
             improved, parent, visited, q, pathEnd, phases, flips, result>>

kuhnVars == <<kpc, V, kadj, kedges, kmatch, kv, kiso, edgeCover>>

vars == <<mecVars, kuhnVars>>

\* ----------------------------------------------------------- small helpers
SeqsUpTo(S, k) == UNION {[1..j -> S] : j \in 0..k}

Min2(a, b) == IF a < b THEN a ELSE b
Max2(a, b) == IF a < b THEN b ELSE a

\* Edge::operator== : undirected equality
EdgeEq(e, f) ==
    \/ (e[1] = f[1] /\ e[2] = f[2])
    \/ (e[1] = f[2] /\ e[2] = f[1])

\* ------------------------------------------------- MinEdgeCover constructor
\* adj(vertices): the int is converted to size_type.  A negative count wraps
\* to a value of at least 2^64 - 2^31 (2^32 - 2^31 on a 32-bit build), which
\* is above vector<vector<int>>::max_size() on every build, so the member
\* initializer throws before the constructor body runs.
AllocFails(count) == count < 0

\* The error kinds the failing allocation can surface as.
AllocErrors == {"length_error", "bad_alloc"}

InRange(e, cnt) == ~(e[1] < 0 \/ e[1] >= cnt \/ e[2] < 0 \/ e[2] >= cnt)

\* for (const auto& e : edges) { range check; adj[e.u].push_back(e.v);
\*                               adj[e.v].push_back(e.u); }
\* from edge index i on; a.ok is FALSE when the range check threw.
RECURSIVE BuildAdj(_, _, _, _)
BuildAdj(es, i, cnt, a) ==
    IF i > Len(es) THEN [ok |-> TRUE, adj |-> a]
    ELSE IF ~InRange(es[i], cnt) THEN [ok |-> FALSE, adj |-> a]
    ELSE LET e  == es[i]
             a1 == [a  EXCEPT ![e[1]] = Append(@, e[2])]
             a2 == [a1 EXCEPT ![e[2]] = Append(@, e[1])]
         IN  BuildAdj(es, i + 1, cnt, a2)

\* mutant: the isolated-vertex loop starts at vertex 1
HasIsolatedSkipZero(a, cnt) == \E i \in 1..(cnt - 1) : a[i] = <<>>

\* for (int i = 0; i < n; i++) if (adj[i].empty()) throw ...
HasIsolated(a, cnt) == \E i \in 0..(cnt - 1) : a[i] = <<>>

EmptyAdj(cnt) == [i \in 0..(cnt - 1) |-> <<>>]

Fail(kind) ==
    /\ pc' = "failed"
    /\ err' = kind
    /\ UNCHANGED <<n, edges, adj>>

Construct ==
    /\ pc = "new"
    /\ IF AllocFails(vertices)
       THEN \E kind \in AllocErrors : Fail(kind)
       ELSE IF vertices <= 0
       THEN Fail("invalid_argument")
       ELSE LET b == BuildAdj(edgeList, 1, vertices, EmptyAdj(vertices))
            IN  IF ~b.ok THEN Fail("invalid_argument")
                ELSE IF HasIsolated(b.adj, vertices) THEN Fail("invalid_argument")
                ELSE /\ pc' = "constructed"
                     /\ err' = "none"
                     /\ n' = vertices
                     /\ edges' = edgeList
                     /\ adj' = b.adj
    /\ UNCHANGED <<vertices, edgeList, match, matching, improved, parent,
                   visited, q, pathEnd, phases, flips, result>>
    /\ UNCHANGED kuhnVars

\* ------------------------------------------- MinEdgeCover::findMaxMatching
AllNone(cnt)  == [i \in 0..(cnt - 1) |-> -1]
AllFalse(cnt) == [i \in 0..(cnt - 1) |-> FALSE]

\* mutant: the seed takes the edge but never marks its endpoints used
GreedyTakeNoMark(e, s) ==
    IF ~s.used[e[1]] /\ ~s.used[e[2]]
    THEN [match    |-> [[s.match EXCEPT ![e[1]] = e[2]] EXCEPT ![e[2]] = e[1]],
          used     |-> s.used,
          matching |-> Append(s.matching, e)]
    ELSE s

\* body of the greedy loop for one edge e
GreedyTake(e, s) ==
    IF ~s.used[e[1]] /\ ~s.used[e[2]]
    THEN [match    |-> [[s.match EXCEPT ![e[1]] = e[2]] EXCEPT ![e[2]] = e[1]],
          used     |-> [[s.used EXCEPT ![e[1]] = TRUE] EXCEPT ![e[2]] = TRUE],
          matching |-> Append(s.matching, e)]
    ELSE s

\* for (const auto& e : edges) ... from edge index i on
RECURSIVE Greedy(_, _, _)
Greedy(es, i, s) ==
    IF i > Len(es) THEN s ELSE Greedy(es, i + 1, GreedyTake(es[i], s))

GreedySeedOf(es, cnt) ==
    Greedy(es, 1, [match |-> AllNone(cnt), used |-> AllFalse(cnt), matching |-> <<>>])

\* solve() is entered, findMaxMatching runs up to `bool improved = true`
GreedySeed ==
    /\ pc = "constructed"
    /\ LET g == GreedySeedOf(edges, n)
       IN  /\ match' = g.match
           /\ matching' = g.matching
    /\ improved' = TRUE
    /\ pc' = "phase"
    /\ UNCHANGED <<vertices, edgeList, err, n, edges, adj, parent, visited, q,
                   pathEnd, phases, flips, result>>
    /\ UNCHANGED kuhnVars

\* mutant: the roots are queued but not marked visited
RootVisitedNever(m, i) == FALSE

\* visited[i] after the "find unmatched vertices" loop
RootVisited(m, i) == m[i] = -1

\* q after the "find unmatched vertices" loop: the unmatched vertices, ascending
RECURSIVE RootQueue(_, _, _)
RootQueue(m, i, cnt) ==
    IF i >= cnt THEN <<>>
    ELSE IF m[i] = -1 THEN <<i>> \o RootQueue(m, i + 1, cnt)
    ELSE RootQueue(m, i + 1, cnt)

\* top of `while (improved)` down to `int pathEnd = -1`
PhaseStart ==
    /\ pc = "phase"
    /\ improved
    /\ improved' = FALSE
    /\ parent' = AllNone(n)
    /\ visited' = [i \in 0..(n - 1) |-> RootVisited(match, i)]
    /\ q' = RootQueue(match, 0, n)
    /\ pathEnd' = -1
    /\ phases' = phases + 1
    /\ pc' = "bfs"
    /\ UNCHANGED <<vertices, edgeList, err, n, edges, adj, match, matching,
                   flips, result>>
    /\ UNCHANGED kuhnVars

\* for (int v : adj[u]) ... from position j of adj[u] on; s holds visited,
\* parent, q and pathEnd; the loop is left at the break
RECURSIVE Scan(_, _, _, _, _)
Scan(a, m, u, j, s) ==
    IF j > Len(a[u]) THEN s
    ELSE LET v == a[u][j]
         IN IF ~s.visited[v]
            THEN LET s1 == [s EXCEPT !.visited[v] = TRUE, !.parent[v] = u]
                 IN IF m[v] = -1
                    THEN [s1 EXCEPT !.pathEnd = v]
                    ELSE Scan(a, m, u, j + 1,
                              [s1 EXCEPT !.q = Append(@, m[v]),
                                         !.visited[m[v]] = TRUE,
                                         !.parent[m[v]] = v])
            ELSE Scan(a, m, u, j + 1, s)

\* one iteration of `while (!q.empty() && pathEnd == -1)`
BfsStep ==
    /\ pc = "bfs"
    /\ q # <<>> /\ pathEnd = -1
    /\ LET u == Head(q)
           s == Scan(adj, match, u, 1,
                     [visited |-> visited, parent |-> parent,
                      q |-> Tail(q), pathEnd |-> pathEnd])
       IN  /\ visited' = s.visited
           /\ parent' = s.parent
           /\ q' = s.q
           /\ pathEnd' = s.pathEnd
    /\ UNCHANGED <<pc, vertices, edgeList, err, n, edges, adj, match, matching,
                   improved, phases, flips, result>>
    /\ UNCHANGED kuhnVars

\* while (parent[v] != -1) { u = parent[v]; prev = parent[u]; match[v] = u;
\*                           match[u] = v; v = prev; }
\* end is "exit" when the test reads -1 from inside the vector, "oob" when the
\* test reads parent[-1], "hang" when the loop walks a cycle of parent links
\* (more than cnt iterations).
RECURSIVE Flip(_, _, _, _)
Flip(m, p, v, left) ==
    IF v = -1 THEN [match |-> m, end |-> "oob"]
    ELSE IF p[v] = -1 THEN [match |-> m, end |-> "exit"]
    ELSE IF left = 0 THEN [match |-> m, end |-> "hang"]
    ELSE LET u    == p[v]
             prev == p[u]
         IN  Flip([[m EXCEPT ![v] = u] EXCEPT ![u] = v], p, prev, left - 1)

\* "rebuild matching": Edge(i, match[i]) for every i < match[i], ascending
RECURSIVE Rebuild(_, _, _)
Rebuild(m, i, cnt) ==
    IF i >= cnt THEN <<>>
    ELSE IF m[i] # -1 /\ i < m[i] THEN <<<<i, m[i]>>>> \o Rebuild(m, i + 1, cnt)
    ELSE Rebuild(m, i + 1, cnt)

\* the BFS loop has ended: `if (pathEnd != -1) { ... }` and back to the test
\* of `while (improved)`.  The out-of-bounds read parent[-1] is undefined: it
\* either yields -1 (the loop ends and the matching is rebuilt) or anything
\* else, which is the stop state "ub".
PhaseEnd ==
    /\ pc = "bfs"
    /\ ~(q # <<>> /\ pathEnd = -1)
    /\ IF pathEnd # -1
       THEN LET f == Flip(match, parent, pathEnd, n)
            IN  /\ flips' = flips + 1
                /\ improved' = TRUE
                /\ match' = f.match
                /\ \/ /\ f.end \in {"exit", "oob"}
                      /\ matching' = Rebuild(f.match, 0, n)
                      /\ pc' = "phase"
                   \/ /\ f.end \in {"oob", "hang"}
                      /\ matching' = matching
                      /\ pc' = "ub"
       ELSE /\ pc' = "phase"
            /\ UNCHANGED <<flips, improved, match, matching>>
    /\ UNCHANGED <<vertices, edgeList, err, n, edges, adj, parent, visited, q,
                   pathEnd, phases, result>>
    /\ UNCHANGED kuhnVars

\* ----------------------------------------------------- MinEdgeCover::solve
\* covered[] after "mark covered vertices"
CoveredBy(es, cnt) ==
    [i \in 0..(cnt - 1) |-> \E k \in 1..Len(es) : es[k][1] = i \/ es[k][2] = i]

FirstIn(S) == CHOOSE k \in S : \A j \in S : k <= j

\* mutant: the inner loop tests only e.u == i
PicksUOnly(i, es) ==
    LET S == {k \in 1..Len(es) : es[k][1] = i}
    IN  IF S = {} THEN <<>> ELSE <<FirstIn(S)>>

\* mutant: the inner loop has no break
RECURSIVE PicksFrom(_, _, _)
PicksFrom(i, es, k) ==
    IF k > Len(es) THEN <<>>
    ELSE IF es[k][1] = i \/ es[k][2] = i THEN <<k>> \o PicksFrom(i, es, k + 1)
    ELSE PicksFrom(i, es, k + 1)

PicksNoBreak(i, es) == PicksFrom(i, es, 1)

\* indices of the edges the inner loop pushes for the uncovered vertex i:
\* the first edge with e.u == i || e.v == i, then break
Picks(i, es) ==
    LET S == {k \in 1..Len(es) : es[k][1] = i \/ es[k][2] = i}
    IN  IF S = {} THEN <<>> ELSE <<FirstIn(S)>>

\* push the picked edges and mark i and their endpoints covered
RECURSIVE PushPicks(_, _, _, _)
PushPicks(ks, j, es, s) ==
    IF j > Len(ks) THEN s
    ELSE LET e == es[ks[j]]
         IN  PushPicks(ks, j + 1, es,
                 [covered |-> [[s.covered EXCEPT ![e[1]] = TRUE] EXCEPT ![e[2]] = TRUE],
                  result  |-> Append(s.result, e)])

\* for (int i = 0; i < n; i++) if (!covered[i]) ... from vertex i on
RECURSIVE CoverRest(_, _, _, _)
CoverRest(i, cnt, es, s) ==
    IF i >= cnt THEN s
    ELSE IF ~s.covered[i]
    THEN LET ks == Picks(i, es)
             s1 == PushPicks(ks, 1, es, s)
             s2 == IF ks = <<>> THEN s1 ELSE [s1 EXCEPT !.covered[i] = TRUE]
         IN  CoverRest(i + 1, cnt, es, s2)
    ELSE CoverRest(i + 1, cnt, es, s)

\* MinEdgeCover::isEdgeCover
isEdgeCover(cnt, cover) ==
    \A i \in 0..(cnt - 1) : \E k \in 1..Len(cover) : cover[k][1] = i \/ cover[k][2] = i

\* `while (improved)` is left, findMaxMatching returns matching, solve()
\* completes the cover and returns
Complete ==
    /\ pc = "phase"
    /\ ~improved
    /\ result' = CoverRest(0, n, edges,
                     [covered |-> CoveredBy(matching, n), result |-> matching]).result
    /\ pc' = "done"
    /\ UNCHANGED <<vertices, edgeList, err, n, edges, adj, match, matching,
                   improved, parent, visited, q, pathEnd, phases, flips>>
    /\ UNCHANGED kuhnVars

\* ------------------------------------------------------ Graph (main.cpp)
\* Graph::addEdge(u, v)
addEdge(u, v) ==
    /\ kpc = "build"
    /\ Len(kedges) < KMaxEdges
    /\ kadj' = [[kadj EXCEPT ![u] = Append(@, v)] EXCEPT ![v] = Append(@, u)]
    /\ kedges' = Append(kedges, <<Min2(u, v), Max2(u, v)>>)
    /\ UNCHANGED <<kpc, V, kmatch, kv, kiso, edgeCover>>

AddEdge ==
    /\ \E u \in 0..(V - 1), v \in 0..(V - 1) : addEdge(u, v)
    /\ UNCHANGED mecVars

\* Graph::hasIsolatedVertices
hasIsolatedVertices(a, cnt) == \E i \in 0..(cnt - 1) : a[i] = <<>>

\* Graph::dfs(v, match, used), the loop over adj[v] from position j on; match
\* and used are passed by reference, so a failed recursive call keeps its marks
RECURSIVE dfs(_, _, _, _, _)
dfs(a, v, j, m, used) ==
    IF j > Len(a[v]) THEN [ok |-> FALSE, match |-> m, used |-> used]
    ELSE LET to == a[v][j]
         IN IF used[to] THEN dfs(a, v, j + 1, m, used)
            ELSE LET u1 == [used EXCEPT ![to] = TRUE]
                 IN IF m[to] = -1
                    THEN [ok    |-> TRUE,
                          match |-> [[m EXCEPT ![to] = v] EXCEPT ![v] = to],
                          used  |-> u1]
                    ELSE LET r == dfs(a, m[to], 1, m, u1)
                         IN IF r.ok
                            THEN [ok    |-> TRUE,
                                  match |-> [[r.match EXCEPT ![to] = v] EXCEPT ![v] = to],
                                  used  |-> r.used]
                            ELSE dfs(a, v, j + 1, r.match, r.used)

\* findMinEdgeCover is called: the isolated-vertex return, or findMaxMatching
\* is entered (`vector<int> match(V, -1)`, v = 0)
CoverStart ==
    /\ kpc = "build"
    /\ IF hasIsolatedVertices(kadj, V)
       THEN /\ kiso' = TRUE
            /\ edgeCover' = {}
            /\ kpc' = "done"
            /\ UNCHANGED <<kmatch, kv>>
       ELSE /\ kmatch' = AllNone(V)
            /\ kv' = 0
            /\ kpc' = "matching"
            /\ UNCHANGED <<kiso, edgeCover>>
    /\ UNCHANGED <<V, kadj, kedges>>
    /\ UNCHANGED mecVars

\* one iteration of `for (int v = 0; v < V; v++)` in Graph::findMaxMatching
MatchStep ==
    /\ kpc = "matching"
    /\ kv < V
    /\ kmatch' = IF kmatch[kv] = -1
                 THEN dfs(kadj, kv, 1, kmatch, AllFalse(V)).match
                 ELSE kmatch
    /\ kv' = kv + 1
    /\ UNCHANGED <<kpc, V, kadj, kedges, kiso, edgeCover>>
    /\ UNCHANGED mecVars

\* "Step 2: Add all edges from matching", from vertex v on
RECURSIVE AddMatched(_, _, _, _)
AddMatched(m, v, cnt, s) ==
    IF v >= cnt THEN s
    ELSE IF m[v] # -1 /\ v < m[v]
    THEN AddMatched(m, v + 1, cnt,
             [cover   |-> s.cover \cup {<<v, m[v]>>},
              covered |-> [[s.covered EXCEPT ![v] = TRUE] EXCEPT ![m[v]] = TRUE]])
    ELSE AddMatched(m, v + 1, cnt, s)

\* "Step 3: For each uncovered vertex, add any incident edge", from vertex v on
RECURSIVE AddIncident(_, _, _, _)
AddIncident(a, v, cnt, s) ==
    IF v >= cnt THEN s
    ELSE IF ~s.covered[v] /\ a[v] # <<>>
    THEN LET u == a[v][1]
         IN  AddIncident(a, v + 1, cnt,
                 [cover   |-> s.cover \cup {<<Min2(v, u), Max2(v, u)>>},
                  covered |-> [[s.covered EXCEPT ![v] = TRUE] EXCEPT ![u] = TRUE]])
    ELSE AddIncident(a, v + 1, cnt, s)

\* findMaxMatching returns match; steps 2 and 3 of findMinEdgeCover
Compose ==
    /\ kpc = "matching"
    /\ kv >= V
    /\ LET s2 == AddMatched(kmatch, 0, V, [cover |-> {}, covered |-> AllFalse(V)])
           s3 == AddIncident(kadj, 0, V, s2)
       IN  edgeCover' = s3.cover
    /\ kpc' = "done"
    /\ UNCHANGED <<V, kadj, kedges, kmatch, kv, kiso>>
    /\ UNCHANGED mecVars

\* ------------------------------------------------------------ specifications
Pairs(S) == S \X S

\* no MinEdgeCover object is under construction or in use yet
InitLocals ==
    /\ pc = "new"
    /\ err = "none"
    /\ n = 0
    /\ edges = <<>>
    /\ adj = <<>>
    /\ match = <<>>
    /\ matching = <<>>
    /\ improved = FALSE
    /\ parent = <<>>
    /\ visited = <<>>
    /\ q = <<>>
    /\ pathEnd = -1
    /\ phases = 0
    /\ flips = 0
    /\ result = <<>>

\* no Graph object exists
KuhnOff ==
    /\ kpc = "off"
    /\ V = 0
    /\ kadj = <<>>
    /\ kedges = <<>>
    /\ kmatch = <<>>
    /\ kv = 0
    /\ kiso = FALSE
    /\ edgeCover = {}

\* every vertex count 1..MaxN with every edge list of in-range endpoints
Init ==
    /\ vertices \in 1..MaxN
    /\ edgeList \in SeqsUpTo(Pairs(0..(vertices - 1)), MaxEdges)
    /\ InitLocals
    /\ KuhnOff

\* vertex counts from -NegRange on, endpoints from -1 to CtorMaxN
InitCtor ==
    /\ vertices \in (0 - NegRange)..CtorMaxN
    /\ edgeList \in SeqsUpTo(Pairs(-1..CtorMaxN), CtorMaxEdges)
    /\ InitLocals
    /\ KuhnOff

\* Graph(V) has run: V vertices, no edge
InitKuhn ==
    /\ vertices = 0
    /\ edgeList = <<>>
    /\ InitLocals
    /\ kpc = "build"
    /\ V \in 1..KMaxV
    /\ kadj = EmptyAdj(V)
    /\ kedges = <<>>
    /\ kmatch = <<>>
    /\ kv = 0
    /\ kiso = FALSE
    /\ edgeCover = {}

Next ==
    \/ Construct
    \/ GreedySeed
    \/ PhaseStart
    \/ BfsStep
    \/ PhaseEnd
    \/ Complete

NextKuhn ==
    \/ AddEdge
    \/ CoverStart
    \/ MatchStep
    \/ Compose

Spec == Init /\ [][Next]_vars

SpecCtor == InitCtor /\ [][Next]_vars

SpecKuhn == InitKuhn /\ [][NextKuhn]_vars

\* ------------------------------------------------ reference notions (graph theory)
NoSelfLoops(es) == \A k \in 1..Len(es) : es[k][1] # es[k][2]

Touches(e, i) == e[1] = i \/ e[2] = i

SharesVertex(e, f) == Touches(f, e[1]) \/ Touches(f, e[2])

\* S, a set of indices of es, is a matching
IsMatchingIn(es, S) ==
    /\ \A i \in S : es[i][1] # es[i][2]
    /\ \A i \in S, j \in S : i # j => ~SharesVertex(es[i], es[j])

\* S, a set of indices of es, covers the vertices 0..cnt-1
IsCoverIn(cnt, es, S) == \A i \in 0..(cnt - 1) : \E k \in S : Touches(es[k], i)

\* brute-force maximum matching size
MaxMatchingSize(es) ==
    LET Sizes == {Cardinality(S) : S \in {T \in SUBSET (1..Len(es)) : IsMatchingIn(es, T)}}
    IN  CHOOSE k \in Sizes : \A j \in Sizes : j <= k

Adjacent(es, u, v) == \E k \in 1..Len(es) : EdgeEq(es[k], <<u, v>>)

\* an augmenting path of the matching m: distinct vertices p[1..2k], both ends
\* unmatched, edges p[i]-p[i+1] of the graph, every second one a matched pair
HasAugmentingPath(cnt, es, m) ==
    \E len \in {k \in 2..cnt : k % 2 = 0} :
        \E p \in [1..len -> 0..(cnt - 1)] :
            /\ \A i \in 1..len, j \in 1..len : i # j => p[i] # p[j]
            /\ m[p[1]] = -1 /\ m[p[len]] = -1
            /\ \A i \in 1..(len - 1) : Adjacent(es, p[i], p[i + 1])
            /\ \A i \in 1..(len - 1) : i % 2 = 0 => m[p[i]] = p[i + 1]

Unmatched(cnt, m) == {i \in 0..(cnt - 1) : m[i] = -1}

\* indices of the edges a first-fit pass over es[1..k] takes: an edge is taken
\* iff no edge taken before it shares a vertex with it
RECURSIVE FirstFit(_, _)
FirstFit(es, k) ==
    IF k = 0 THEN {}
    ELSE LET T == FirstFit(es, k - 1)
         IN  IF \A j \in T : ~SharesVertex(es[j], es[k]) THEN T \cup {k} ELSE T

\* the subsequence of es at the indices in T
RECURSIVE Pick(_, _, _)
Pick(es, T, k) ==
    IF k > Len(es) THEN <<>>
    ELSE IF k \in T THEN <<es[k]>> \o Pick(es, T, k + 1)
    ELSE Pick(es, T, k + 1)

SomeOutOfRange(cnt, es) ==
    \E k \in 1..Len(es) : es[k][1] \notin 0..(cnt - 1) \/ es[k][2] \notin 0..(cnt - 1)

SomeIsolated(cnt, es) ==
    \E i \in 0..(cnt - 1) : \A k \in 1..Len(es) : ~Touches(es[k], i)

\* --------------------------------------------------------------------- claims
\* C1 (cover completeness): whenever solve() has returned, the returned list
\* touches every vertex of [0, n): isEdgeCover(n, solve()) is true.
C1_CoverComplete == pc = "done" => isEdgeCover(n, result)

\* C1 witness: solve() returned on a 3-vertex graph with parallel edges where
\* the completion step added an edge.
C1_Witness ==
    /\ pc = "done"
    /\ n = 3
    /\ Len(result) > Len(matching)
    /\ \E i \in 1..Len(edges), j \in 1..Len(edges) : i < j /\ EdgeEq(edges[i], edges[j])

\* C2 (minimality): on a graph without self-loops no set of the graph's edges
\* that covers all n vertices is smaller than the list solve() returned.
C2_Minimality ==
    (pc = "done" /\ NoSelfLoops(edges)) =>
        \A S \in SUBSET (1..Len(edges)) :
            IsCoverIn(n, edges, S) => Cardinality(S) >= Len(result)

\* C3 (maximum matching): on a graph without self-loops the matching returned
\* by findMaxMatching() admits no augmenting path and has the brute-force
\* maximum size.
C3_MaximumMatching ==
    (pc = "done" /\ NoSelfLoops(edges)) =>
        /\ ~HasAugmentingPath(n, edges, match)
        /\ Len(matching) = MaxMatchingSize(edges)

\* C4 (cardinality law): on a graph without self-loops solve() returns
\* n - |matching| edges, the completion step adding exactly one edge per
\* unmatched vertex.
C4_CardinalityLaw ==
    (pc = "done" /\ NoSelfLoops(edges)) =>
        /\ Len(result) = n - Len(matching)
        /\ Len(result) - Len(matching) = Cardinality(Unmatched(n, match))

\* C4 witness: solve() returned on a loop-free graph with two unmatched vertices.
C4_Witness ==
    /\ pc = "done"
    /\ NoSelfLoops(edges)
    /\ Cardinality(Unmatched(n, match)) = 2
    /\ Len(result) = Len(matching) + 2

\* C5 (non-positive vertex count): constructing with vertices <= 0 fails with
\* invalid_argument and with no other error kind.
C5_NonPositiveInvalidArgument ==
    (pc # "new" /\ vertices <= 0) => (pc = "failed" /\ err = "invalid_argument")

\* C6 (rejection): for vertices > 0 the constructor throws invalid_argument
\* iff some endpoint is outside [0, n) or some vertex has no incident edge;
\* otherwise it succeeds, and solve() never runs on a graph with an isolated
\* vertex.
C6_CtorRejects ==
    (pc # "new" /\ vertices > 0) =>
        LET bad == SomeOutOfRange(vertices, edgeList) \/ SomeIsolated(vertices, edgeList)
        IN  /\ bad <=> (pc = "failed" /\ err = "invalid_argument")
            /\ ~bad <=> (pc # "failed" /\ err = "none")
            /\ pc # "failed" =>
                   /\ n = vertices /\ edges = edgeList
                   /\ ~SomeIsolated(n, edges)

\* C6 witness: n = 3 with the single edge {0,1} has been rejected.
C6_Witness ==
    /\ pc = "failed"
    /\ err = "invalid_argument"
    /\ vertices = 3
    /\ edgeList = << <<0, 1>> >>

\* C7 (Kuhn variant, minimum cover): on a graph without isolated vertex and
\* self-loop, findMinEdgeCover() returns edges that cover every vertex and
\* number V minus the maximum matching size.
C7_KuhnMinimumCover ==
    (kpc = "done" /\ ~kiso /\ NoSelfLoops(kedges)) =>
        /\ \A i \in 0..(V - 1) : \E e \in edgeCover : Touches(e, i)
        /\ Cardinality(edgeCover) = V - MaxMatchingSize(kedges)

\* C8 (Kuhn variant, symmetry): after every completed top-level dfs call and
\* when findMaxMatching() returns, match[match[v]] == v wherever match[v] is
\* defined (stated here for the graphs without self-loops only, which is all
\* the refutation needs).
C8_KuhnSymmetry ==
    (kpc \in {"matching", "done"} /\ ~kiso /\ NoSelfLoops(kedges)) =>
        \A v \in 0..(V - 1) : kmatch[v] # -1 => kmatch[kmatch[v]] = v

\* C9 (no duplicates): the list solve() returned never holds two edges equal
\* under undirected equality.
C9_NoDuplicates ==
    pc = "done" =>
        \A i \in 1..Len(result), j \in 1..Len(result) :
            i # j => ~EdgeEq(result[i], result[j])

\* C9 witness: solve() returned on an edge list that names one pair twice, in
\* both orientations, and the completion step added an edge.
C9_Witness ==
    /\ pc = "done"
    /\ \E i \in 1..Len(edges), j \in 1..Len(edges) :
           /\ i < j
           /\ edges[i][1] # edges[i][2]
           /\ edges[j] = <<edges[i][2], edges[i][1]>>
    /\ Len(result) > Len(matching)

\* C10 (the BFS never augments): pathEnd is -1 in every state, every vertex
\* entered through the !visited[v] branch is matched, the path-flipping block
\* is never entered, `while (improved)` runs exactly one phase, and the
\* returned matching is the greedy first-fit seed.
C10_GreedyOnly ==
    /\ pathEnd = -1
    /\ flips = 0
    /\ phases <= 1
    /\ pc # "ub"
    /\ pc = "bfs" => \A v \in 0..(n - 1) : parent[v] # -1 => match[v] # -1
    /\ pc = "done" =>
           /\ phases = 1
           /\ matching = Pick(edges, FirstFit(edges, Len(edges)), 1)

\* C10 witness: solve() returned although an augmenting path exists for the
\* returned matching.
C10_Witness ==
    /\ pc = "done"
    /\ NoSelfLoops(edges)
    /\ HasAugmentingPath(n, edges, match)

====
